---------------------------- MODULE Spec2Model ----------------------------
(***************************************************************************)
(* A model of the ward scorecard of where-the-rats-at:                     *)
(*   data/fetch.py     fetch_rodent_complaints                             *)
(*   utils/metrics.py  calculate_ward_metrics, calculate_ward_grades,      *)
(*                     get_city_summary                                    *)
(*                                                                         *)
(* Representation.                                                         *)
(*  - A nullable value (NaN, NaT, None) is the empty tuple <<>>; a present *)
(*    value x is <<x>>.                                                    *)
(*  - A field of a raw portal row is [t, v]: t = "abs" (the key is missing *)
(*    from the JSON row, as Socrata leaves out null fields), "bad" (a      *)
(*    string the converter cannot parse) or "val" (v is the value).        *)
(*  - Timestamps are whole ticks; a day is TicksPerDay ticks.  A duration  *)
(*    in days (total_seconds() / 86400) is kept as its number of ticks,    *)
(*    i.e. as the rational ticks / TicksPerDay.                            *)
(*  - A statistic is a rational <<n, d>> with d > 0 in ticks, or <<>>.     *)
(*    std_response is kept as its square (the sample variance): the square *)
(*    root is monotone, so ranks and ties are those of the deviation.      *)
(*  - A percentile score and final_score are rationals <<n, d>>, or <<>>.  *)
(*  - A status is a tuple of characters.                                   *)
(***************************************************************************)
EXTENDS Integers, Sequences, FiniteSets, TLC

VARIABLES upstream, df, summary, metrics, graded, probe,
          aldermen, page, cache, now

\* what the pages add to the functions: the officials, the page's position,
\* the store of st.cache_data and the clock
session == <<aldermen, page, cache, now>>

vars == <<upstream, df, summary, metrics, graded, probe, session>>

-----------------------------------------------------------------------------
(* Bounds *)

\* rows the portal holds at most
MaxRecords == 3

\* ticks per day of the timestamp grid
TicksPerDay == 2

\* half-width, in thousandths, of the window of scores tried around each
\* grade threshold
GradeEps == 2

(* Program constants *)

\* fetch.py:63  response times above 365 days are discarded
MaxResponseDays == 365

\* metrics.py:60  default of min_complaints_threshold
MinComplaintsThreshold == 800

-----------------------------------------------------------------------------
(* Values *)

NaN == <<>>
Some(x) == <<x>>
IsNull(x) == x = <<>>
NotNull(x) == x # <<>>
Val(x) == x[1]

Absent == [t |-> "abs", v |-> 0]
Bad == [t |-> "bad", v |-> 0]
Given(x) == [t |-> "val", v |-> x]

NONE == [kind |-> "none"]
Raised(e) == [kind |-> "raised", exc |-> e]

\* no page is running
NoSession == aldermen = NONE /\ page = NONE /\ cache = NONE /\ now = 0

RECURSIVE SumSeq(_)
SumSeq(s) == IF s = <<>> THEN 0 ELSE Head(s) + SumSeq(Tail(s))

RECURSIVE SumSq(_)
SumSq(s) == IF s = <<>> THEN 0 ELSE Head(s) * Head(s) + SumSq(Tail(s))

RECURSIVE Insert(_, _)
Insert(x, s) ==
    IF s = <<>> THEN <<x>>
    ELSE IF x < Head(s) THEN <<x>> \o s
    ELSE <<Head(s)>> \o Insert(x, Tail(s))

NoSort(s) == s

RECURSIVE SortInts(_)
SortInts(s) == IF s = <<>> THEN <<>> ELSE Insert(Head(s), SortInts(Tail(s)))

SetToSortedSeq(S) ==
    LET RECURSIVE Build(_)
        Build(T) == IF T = {} THEN <<>>
                    ELSE LET m == CHOOSE x \in T : \A y \in T : x <= y
                         IN <<m>> \o Build(T \ {m})
    IN Build(S)

\* rationals <<n, d>>, d > 0
RatLt(a, b) == a[1] * b[2] < b[1] * a[2]
RatEq(a, b) == a[1] * b[2] = b[1] * a[2]
RatLe(a, b) == a[1] * b[2] <= b[1] * a[2]

Abs(x) == IF x < 0 THEN -x ELSE x

\* n / d rounded to an integer, halves to the even neighbour (numpy's rint);
\* d > 0
RoundHalfEven(n, d) ==
    LET q == n \div d
        r == n % d
    IN IF 2 * r < d THEN q
       ELSE IF 2 * r > d THEN q + 1
       ELSE IF q % 2 = 0 THEN q ELSE q + 1

-----------------------------------------------------------------------------
(* Status strings *)

Completed == <<"C", "o", "m", "p", "l", "e", "t", "e", "d">>
CompletedUpper == <<"C", "O", "M", "P", "L", "E", "T", "E", "D">>
Open == <<"O", "p", "e", "n">>

Lower(c) ==
    CASE c = "C" -> "c" [] c = "O" -> "o" [] c = "M" -> "m" [] c = "P" -> "p"
      [] c = "L" -> "l" [] c = "E" -> "e" [] c = "T" -> "t" [] c = "D" -> "d"
      [] OTHER -> c

LowerStr(s) == [i \in 1..Len(s) |-> Lower(s[i])]

\* pat occurs in s as a substring
Contains(s, pat) ==
    \E i \in 0..(Len(s) - Len(pat)) :
        \A j \in 1..Len(pat) : s[i + j] = pat[j]

StrContainsCompletedCased(status) ==
    IF IsNull(status) THEN FALSE ELSE Contains(Val(status), Completed)

\* Series.str.contains('Completed', case=False, na=False) on one value
StrContainsCompleted(status) ==
    IF IsNull(status) THEN FALSE
    ELSE Contains(LowerStr(Val(status)), LowerStr(Completed))

-----------------------------------------------------------------------------
(* The rows the portal can hold *)

RawRow(sr, w, st, cr, cl) ==
    [sr_number |-> sr, ward |-> w, status |-> st,
     created_date |-> cr, closed_date |-> cl]

\* completed requests of wards 1 and 2, closed 1 or 2 ticks after creation
CoreRows ==
    {RawRow(Given("SR"), Given(w), Given(Completed), Given(0), Given(d)) :
        w \in {1, 2}, d \in {1, 2}}

EdgeRows ==
    { \* an open request: no closed_date key in the row
      RawRow(Given("SR"), Given(1), Given(Open), Given(0), Absent),
      RawRow(Given("SR"), Given(2), Given(Open), Given(0), Absent),
      \* the keyword in another case
      RawRow(Given("SR"), Given(1), Given(CompletedUpper), Given(0), Given(1)),
      \* no status
      RawRow(Given("SR"), Given(1), Absent, Given(0), Given(1)),
      \* closed in the tick it was created
      RawRow(Given("SR"), Given(1), Given(Completed), Given(1), Given(1)),
      \* closed before it was created
      RawRow(Given("SR"), Given(1), Given(Completed), Given(2), Given(0)),
      \* an unparseable closed_date
      RawRow(Given("SR"), Given(1), Given(Completed), Given(0), Bad),
      \* an unparseable created_date
      RawRow(Given("SR"), Given(1), Given(Completed), Bad, Given(1)),
      \* no request number
      RawRow(Absent, Given(1), Given(Completed), Given(0), Given(1)),
      \* no ward
      RawRow(Given("SR"), Absent, Given(Completed), Given(0), Given(2)) }

RawRows == CoreRows \cup EdgeRows

-----------------------------------------------------------------------------
(* data/fetch.py *)

Frame(cols, rows) == [kind |-> "frame", cols |-> cols, rows |-> rows]

\* pd.DataFrame(): no rows, no columns
EmptyFrame == Frame({}, <<>>)

RawFields == {"sr_number", "ward", "status", "created_date", "closed_date"}

\* DataFrame.from_records: a column for every key some row carries
FromRecordsColumns(results) ==
    {f \in RawFields : \E i \in 1..Len(results) : results[i][f].t # "abs"}

\* a missing key, or a value converted with errors='coerce', is null
Coerce(field) == IF field.t = "val" THEN Some(field.v) ELSE NaN

ResponseDaysNoUpperLimit(created, closed) ==
    IF IsNull(created) \/ IsNull(closed) THEN NaN
    ELSE LET d == Val(closed) - Val(created)
         IN IF d < 0 THEN NaN ELSE Some(d)

ResponseDaysOffByOne(created, closed) ==
    IF IsNull(created) \/ IsNull(closed) THEN NaN
    ELSE LET d == Val(closed) - Val(created)
         IN IF d < 0 THEN NaN
            ELSE IF d >= MaxResponseDays * TicksPerDay THEN NaN
            ELSE Some(d)

\* (closed_date - created_date).dt.total_seconds() / 86400, in ticks,
\* then the two .loc assignments of None
ResponseDays(created, closed) ==
    IF IsNull(created) \/ IsNull(closed) THEN NaN
    ELSE LET d == Val(closed) - Val(created)
         IN IF d < 0 THEN NaN
            ELSE IF d > MaxResponseDays * TicksPerDay THEN NaN
            ELSE Some(d)

\* .dt.hour and .dt.dayofweek; tick 0 is a Monday, 00:00
CreatedHour(created) ==
    IF IsNull(created) THEN NaN
    ELSE Some(((Val(created) % TicksPerDay) * 24) \div TicksPerDay)

CreatedDayOfWeek(created) ==
    IF IsNull(created) THEN NaN
    ELSE Some((Val(created) \div TicksPerDay) % 7)

NormalizeRow(raw) ==
    LET created == Coerce(raw.created_date)
        closed == Coerce(raw.closed_date)
    IN [sr_number |-> Coerce(raw.sr_number),
        ward |-> Coerce(raw.ward),
        status |-> Coerce(raw.status),
        created_date |-> created,
        closed_date |-> closed,
        response_days |-> ResponseDays(created, closed),
        created_hour |-> CreatedHour(created),
        created_day_of_week |-> CreatedDayOfWeek(created)]

DerivedFields == {"response_days", "created_hour", "created_day_of_week"}

\* fetch_rodent_complaints.  portal.up = FALSE: client.get raises inside the
\* try block.  The conversions run after the try block, so what they raise
\* leaves the function.  (The rows are taken to carry community_area,
\* latitude and longitude; created_month is not modelled.)
FetchRodentComplaints(portal) ==
    IF ~portal.up THEN EmptyFrame
    ELSE LET results == portal.rows
             cols == FromRecordsColumns(results)
         IN IF results = <<>> THEN EmptyFrame
            ELSE IF "created_date" \notin cols THEN Raised("KeyError")
            ELSE IF \E i \in 1..Len(results) : results[i].created_date.t = "bad"
                 THEN Raised("ValueError")
            ELSE IF "closed_date" \notin cols THEN Raised("KeyError")
            ELSE IF "ward" \notin cols THEN Raised("KeyError")
            ELSE Frame(cols \cup DerivedFields,
                       [i \in 1..Len(results) |-> NormalizeRow(results[i])])

-----------------------------------------------------------------------------
(* utils/metrics.py: statistics of a non-empty sequence of durations *)

Median(x) ==
    LET s == SortInts(x)
        n == Len(s)
    IN IF n % 2 = 1 THEN <<s[(n + 1) \div 2], 1>>
       ELSE <<s[n \div 2] + s[n \div 2 + 1], 2>>

Mean(x) == <<SumSeq(x), Len(x)>>

\* np.percentile(x, 90): linear interpolation at position 0.9 * (n - 1)
Percentile90(x) ==
    LET s == SortInts(x)
        n == Len(s)
        pos == 9 * (n - 1)
        lo == pos \div 10 + 1
        hi == IF lo < n THEN lo + 1 ELSE n
    IN <<10 * s[lo] + (pos % 10) * (s[hi] - s[lo]), 10>>

MinOf(x) == <<SortInts(x)[1], 1>>
MaxOf(x) == <<SortInts(x)[Len(x)], 1>>

StdPopulation(x) ==
    LET n == Len(x)
    IN <<n * SumSq(x) - SumSeq(x) * SumSeq(x), n * n>>

\* 'std' (ddof = 1), as its square; undefined for a single value
Std(x) ==
    LET n == Len(x)
    IN IF n < 2 THEN NaN
       ELSE <<n * SumSq(x) - SumSeq(x) * SumSeq(x), n * (n - 1)>>

Floor1(n, d) == <<(10 * n) \div d, 10>>

\* n / d rounded to one decimal
Round1(n, d) == <<RoundHalfEven(10 * n, d), 10>>

-----------------------------------------------------------------------------
(* utils/metrics.py: calculate_ward_metrics *)

Table(rows) == [kind |-> "table", rows |-> rows]

IsCompletedAnyStatus(row) ==
    /\ NotNull(row.response_days)
    /\ Val(row.response_days) > 0

\* the row filter of lines 18-22 and 216-220
IsCompleted(row) ==
    /\ StrContainsCompleted(row.status)
    /\ NotNull(row.response_days)
    /\ Val(row.response_days) > 0

CompletedRows(rows) == SelectSeq(rows, IsCompleted)

\* groupby('ward') leaves out the rows whose ward is null and sorts the keys
WardKeys(rows) ==
    SetToSortedSeq({Val(rows[i].ward) :
                        i \in {j \in 1..Len(rows) : NotNull(rows[j].ward)}})

WardRows(rows, w) ==
    LET InWard(row) == row.ward = Some(w) IN SelectSeq(rows, InWard)

Durations(rows) == [i \in 1..Len(rows) |-> Val(rows[i].response_days)]

\* 'count' of sr_number: the non-null values
CountSrNumber(rows) ==
    Cardinality({i \in 1..Len(rows) : NotNull(rows[i].sr_number)})

DenseRank(all, med) ==
    1 + Cardinality({i \in 1..Len(all) :
                        /\ RatLt(all[i], med)
                        /\ \A j \in 1..(i - 1) : ~RatEq(all[j], all[i])})

\* Series.rank(method='min') of one value among all
MinRank(all, med) ==
    1 + Cardinality({i \in 1..Len(all) : RatLt(all[i], med)})

RECURSIVE InsertByRank(_, _)
InsertByRank(x, s) ==
    IF s = <<>> THEN <<x>>
    ELSE IF x.rank < Head(s).rank THEN <<x>> \o s
    ELSE <<Head(s)>> \o InsertByRank(x, Tail(s))

Unsorted(s) == s

\* sort_values('rank'); rows of equal rank keep their order
RECURSIVE SortByRank(_)
SortByRank(s) ==
    IF s = <<>> THEN <<>>
    ELSE InsertByRank(s[Len(s)], SortByRank(SubSeq(s, 1, Len(s) - 1)))

\* lines 36-41: completed / all_complaints * 100, rounded to one decimal
CompletionRate(rows, completed, w) ==
    Round1(Len(WardRows(completed, w)) * 100, Len(WardRows(rows, w)))

\* line 51: (median - city_median) / city_median * 100, one decimal
VsCityMedian(med, city) ==
    Round1((med[1] * city[2] - city[1] * med[2]) * 100, med[2] * city[1])

CityMedianOfWardMedians(completed) ==
    LET keys == WardKeys(completed)
        twice == [k \in 1..Len(keys) |->
                     LET m == Median(Durations(WardRows(completed, keys[k])))
                     IN (2 * m[1]) \div m[2]]
        mm == Median(twice)
    IN <<mm[1], 2 * mm[2]>>

CityMedianOfWarded(completed) ==
    LET HasWard(row) == NotNull(row.ward)
    IN Median(Durations(SelectSeq(completed, HasWard)))

\* line 50: the median of all completed durations, whatever the ward
CityMedian(completed) == Median(Durations(completed))

WardMetricsRows(rows) ==
    LET completed == CompletedRows(rows)
        keys == WardKeys(completed)
        med == [k \in 1..Len(keys) |->
                   Median(Durations(WardRows(completed, keys[k])))]
        city == CityMedian(completed)
        Row(k) ==
            LET mine == WardRows(completed, keys[k])
                x == Durations(mine)
            IN [ward |-> keys[k],
                total_complaints |-> CountSrNumber(mine),
                median_response |-> med[k],
                mean_response |-> Mean(x),
                p90_response |-> Percentile90(x),
                min_response |-> MinOf(x),
                max_response |-> MaxOf(x),
                std_response |-> Std(x),
                completion_rate |-> CompletionRate(rows, completed, keys[k]),
                all_complaints |-> Len(WardRows(rows, keys[k])),
                rank |-> MinRank(med, med[k]),
                vs_city_median |-> VsCityMedian(med[k], city)]
    IN SortByRank([k \in 1..Len(keys) |-> Row(k)])

MetricsColumns == {"status", "response_days", "ward", "sr_number"}

\* a column the frame lacks raises KeyError
CalculateWardMetricsOf(frame) ==
    IF ~(MetricsColumns \subseteq frame.cols) THEN Raised("KeyError")
    ELSE Table(WardMetricsRows(frame.rows))

-----------------------------------------------------------------------------
(* utils/metrics.py: calculate_ward_grades *)

\* lines 116-120: the weights, in hundredths
SpeedWeight == 30
VolumeWeight == 25
P90Weight == 20
ConsistencyWeight == 15
CompletionWeight == 10

\* lines 126-132: the inclusive lower bounds of A, B, C and D
GradeA == 80
GradeB == 65
GradeC == 50
GradeD == 35

TwiceFirstRank(series, i, ascending) ==
    LET others == {j \in 1..Len(series) : NotNull(series[j])}
        Better(a, b) == IF ascending THEN RatLt(a, b) ELSE RatLt(b, a)
        ahead == Cardinality({j \in others : Better(series[j], series[i])})
        before == Cardinality({j \in others :
                                  j < i /\ RatEq(series[j], series[i])})
    IN 2 * (ahead + before + 1)

TwiceMinRank(series, i, ascending) ==
    LET others == {j \in 1..Len(series) : NotNull(series[j])}
        Better(a, b) == IF ascending THEN RatLt(a, b) ELSE RatLt(b, a)
        ahead == Cardinality({j \in others : Better(series[j], series[i])})
    IN 2 * (ahead + 1)

\* twice Series.rank(method='average') of series[i]: a null value has no
\* rank and is left out of the ranking of the others
TwiceAverageRank(series, i, ascending) ==
    LET others == {j \in 1..Len(series) : NotNull(series[j])}
        Better(a, b) == IF ascending THEN RatLt(a, b) ELSE RatLt(b, a)
        ahead == Cardinality({j \in others : Better(series[j], series[i])})
        equal == Cardinality({j \in others : RatEq(series[j], series[i])})
    IN 2 * ahead + equal + 1

PercentileScoreOverN(series, ascending, n) ==
    [i \in 1..Len(series) |->
        IF IsNull(series[i]) THEN NaN
        ELSE <<200 * n - (TwiceAverageRank(series, i, ascending) - 2) * 80,
               2 * n>>]

PercentileScoreSpan100(series, ascending, n) ==
    LET D == IF n - 1 > 1 THEN n - 1 ELSE 1
    IN [i \in 1..Len(series) |->
           IF IsNull(series[i]) THEN NaN
           ELSE <<200 * D - (TwiceAverageRank(series, i, ascending) - 2) * 100,
                  2 * D>>]

\* percentile_score: 100 - ((rank - 1) / max(n - 1, 1)) * 80, with n the
\* length of the table
PercentileScore(series, ascending, n) ==
    LET D == IF n - 1 > 1 THEN n - 1 ELSE 1
    IN [i \in 1..Len(series) |->
           IF IsNull(series[i]) THEN NaN
           ELSE <<200 * D - (TwiceAverageRank(series, i, ascending) - 2) * 80,
                  2 * D>>]

\* lines 115-121; the five scores share their denominator; a null score
\* makes the sum null
FinalScore(speed, volume, p90, consistency, completion) ==
    IF \E s \in {speed, volume, p90, consistency, completion} : IsNull(s)
    THEN NaN
    ELSE <<speed[1] * SpeedWeight + volume[1] * VolumeWeight
            + p90[1] * P90Weight + consistency[1] * ConsistencyWeight
            + completion[1] * CompletionWeight,
           speed[2] * 100>>

ScoreGt(score, k) == NotNull(score) /\ score[1] > k * score[2]

\* score >= k; a comparison with NaN is false
ScoreGe(score, k) == NotNull(score) /\ score[1] >= k * score[2]

AssignGrade(score) ==
    IF ScoreGe(score, GradeA) THEN "A"
    ELSE IF ScoreGe(score, GradeB) THEN "B"
    ELSE IF ScoreGe(score, GradeC) THEN "C"
    ELSE IF ScoreGe(score, GradeD) THEN "D"
    ELSE "F"

GradeColor(grade) ==
    CASE grade = "A" -> "#22c55e" [] grade = "B" -> "#84cc16"
      [] grade = "C" -> "#eab308" [] grade = "D" -> "#f97316"
      [] OTHER -> "#ef4444"

LowSampleSizeInclusive(total_complaints, min_complaints_threshold) ==
    total_complaints <= min_complaints_threshold

\* line 80
LowSampleSize(total_complaints, min_complaints_threshold) ==
    total_complaints < min_complaints_threshold

Column(rows, name) == [i \in 1..Len(rows) |-> rows[i][name]]

GradedRows(rows, min_complaints_threshold) ==
    LET n == Len(rows)
        speed == PercentileScore(Column(rows, "median_response"), TRUE, n)
        volume ==
            PercentileScore([i \in 1..n |-> <<rows[i].total_complaints, 1>>],
                            FALSE, n)
        p90 == PercentileScore(Column(rows, "p90_response"), TRUE, n)
        consistency == PercentileScore(Column(rows, "std_response"), TRUE, n)
        completion == PercentileScore(Column(rows, "completion_rate"), FALSE, n)
        final == [i \in 1..n |->
                     FinalScore(speed[i], volume[i], p90[i], consistency[i],
                                completion[i])]
    IN [i \in 1..n |->
           [metrics |-> rows[i],
            low_sample_size |->
                LowSampleSize(rows[i].total_complaints,
                              min_complaints_threshold),
            speed_score |-> speed[i],
            volume_score |-> volume[i],
            p90_score |-> p90[i],
            consistency_score |-> consistency[i],
            completion_score |-> completion[i],
            final_score |-> final[i],
            grade |-> AssignGrade(final[i]),
            adjusted_response |-> rows[i].median_response,
            volume_adjustment |-> 1,
            response_score |-> speed[i],
            grade_color |-> GradeColor(AssignGrade(final[i]))]]

CalculateWardGradesOf(table, min_complaints_threshold) ==
    [kind |-> "graded", threshold |-> min_complaints_threshold,
     rows |-> GradedRows(table.rows, min_complaints_threshold)]

-----------------------------------------------------------------------------
(* utils/metrics.py: get_city_summary *)

SummaryColumns == {"status", "response_days", "ward", "created_date"}

NonNull(rows, name) ==
    {Val(rows[i][name]) : i \in {j \in 1..Len(rows) : NotNull(rows[j][name])}}

NUniqueWithNull(rows, name) ==
    Cardinality(NonNull(rows, name))
        + (IF \E i \in 1..Len(rows) : IsNull(rows[i][name]) THEN 1 ELSE 0)

\* Series.nunique(): the distinct non-null values
NUnique(rows, name) == Cardinality(NonNull(rows, name))

MinOrNaN(S) == IF S = {} THEN NaN ELSE Some(CHOOSE x \in S : \A y \in S : x <= y)
MaxOrNaN(S) == IF S = {} THEN NaN ELSE Some(CHOOSE x \in S : \A y \in S : x >= y)

\* median_response_days and mean_response_days are in days, rounded to one
\* decimal: a statistic <<n, d>> in ticks is n / (d * TicksPerDay) days
RoundDays(stat) == Round1(stat[1], stat[2] * TicksPerDay)

GetCitySummaryOf(frame) ==
    IF ~(SummaryColumns \subseteq frame.cols) THEN Raised("KeyError")
    ELSE
    LET rows == frame.rows
        completed == CompletedRows(rows)
    IN [kind |-> "summary",
        total_complaints |-> Len(rows),
        completed_complaints |-> Len(completed),
        completion_rate |->
            IF Len(rows) > 0 THEN Round1(Len(completed) * 100, Len(rows))
            ELSE <<0, 10>>,
        median_response_days |->
            IF Len(completed) > 0 THEN RoundDays(Median(Durations(completed)))
            ELSE NaN,
        mean_response_days |->
            IF Len(completed) > 0 THEN RoundDays(Mean(Durations(completed)))
            ELSE NaN,
        wards_with_data |-> NUnique(rows, "ward"),
        date_range |-> [start |-> MinOrNaN(NonNull(rows, "created_date")),
                        end |-> MaxOrNaN(NonNull(rows, "created_date"))]]

-----------------------------------------------------------------------------
(* The state machine: the portal fills, one fetch, then the callers of       *)
(* utils/metrics.py (Home.py, pages/3_Ward_Report.py, metrics.py __main__)  *)
(* run the three functions on the fetched frame.                            *)

Thresholds == {2, MinComplaintsThreshold}

Init ==
    /\ upstream = [up |-> TRUE, rows |-> <<>>]
    /\ df = NONE
    /\ summary = NONE
    /\ metrics = NONE
    /\ graded = NONE
    /\ probe = NONE
    /\ NoSession

\* a request is filed with the portal
AddRow(r) ==
    /\ df = NONE
    /\ upstream.up
    /\ Len(upstream.rows) < MaxRecords
    /\ upstream' = [upstream EXCEPT !.rows = Append(@, r)]
    /\ UNCHANGED <<df, summary, metrics, graded, probe, session>>

\* the portal stops answering
PortalDown ==
    /\ df = NONE
    /\ upstream.up
    /\ upstream' = [upstream EXCEPT !.up = FALSE]
    /\ UNCHANGED <<df, summary, metrics, graded, probe, session>>

Fetch ==
    /\ df = NONE
    /\ df' = FetchRodentComplaints(upstream)
    /\ UNCHANGED <<upstream, summary, metrics, graded, probe, session>>

GetCitySummary ==
    /\ df.kind = "frame"
    /\ summary = NONE
    /\ summary' = GetCitySummaryOf(df)
    /\ UNCHANGED <<upstream, df, metrics, graded, probe, session>>

CalculateWardMetrics ==
    /\ df.kind = "frame"
    /\ metrics = NONE
    /\ metrics' = CalculateWardMetricsOf(df)
    /\ UNCHANGED <<upstream, df, summary, graded, probe, session>>

CalculateWardGrades(threshold) ==
    /\ metrics.kind = "table"
    /\ graded = NONE
    /\ graded' = CalculateWardGradesOf(metrics, threshold)
    /\ UNCHANGED <<upstream, df, summary, metrics, probe, session>>

Next ==
    \/ \E r \in RawRows : AddRow(r)
    \/ PortalDown
    \/ Fetch
    \/ GetCitySummary
    \/ CalculateWardMetrics
    \/ \E threshold \in Thresholds : CalculateWardGrades(threshold)

Spec == Init /\ [][Next]_vars

-----------------------------------------------------------------------------
(* The same functions on a portal that already holds its rows *)

\* the run of metrics.py's __main__ and of the pages once the rows are there
PipelineNext ==
    \/ Fetch
    \/ GetCitySummary
    \/ CalculateWardMetrics
    \/ \E threshold \in Thresholds : CalculateWardGrades(threshold)

Idle ==
    /\ df = NONE
    /\ summary = NONE
    /\ metrics = NONE
    /\ graded = NONE
    /\ probe = NONE
    /\ NoSession

\* wards of a cohort
MaxWards == 3

\* what a ward can hold: the durations, in ticks, of its completed requests
\* in the order they were filed; 0 stands for a request that is still open
WardProfiles ==
    {<<>>, <<1>>, <<2>>, <<1, 3>>, <<2, 2>>, <<1, 0>>, <<2, 0, 3>>}

CompletedRow(w, d) ==
    RawRow(Given("SR"), Given(w), Given(Completed), Given(0), Given(d))

OpenRow(w) == RawRow(Given("SR"), Given(w), Given(Open), Given(0), Absent)

ProfileRows(w, profile) ==
    [i \in 1..Len(profile) |->
        IF profile[i] = 0 THEN OpenRow(w) ELSE CompletedRow(w, profile[i])]

\* the rows of wards 1..n, ward after ward
RECURSIVE CohortRows(_, _)
CohortRows(profiles, n) ==
    IF n = 0 THEN <<>>
    ELSE CohortRows(profiles, n - 1) \o ProfileRows(n, profiles[n])

CohortPayloads ==
    {CohortRows(profiles, MaxWards) : profiles \in [1..MaxWards -> WardProfiles]}

\* ward 1 (X) answered in 1, 2, 3, 4, 5 days, ward 2 (Y) in 10, 20, 30 days,
\* ward 3 (Z) in 100 days
ScenarioDays == <<<<1, 2, 3, 4, 5>>, <<10, 20, 30>>, <<100>>>>

ScenarioPayload ==
    CohortRows([w \in 1..3 |->
                   [i \in 1..Len(ScenarioDays[w]) |->
                       ScenarioDays[w][i] * TicksPerDay]], 3)

CohortInit ==
    /\ upstream \in {[up |-> TRUE, rows |-> rows] :
                        rows \in CohortPayloads \cup {ScenarioPayload}}
    /\ Idle

CohortSpec == CohortInit /\ [][PipelineNext]_vars

\* durations, in ticks, around the two limits of the normalizer
NormDurations ==
    {-1, 0, 1, MaxResponseDays * TicksPerDay, MaxResponseDays * TicksPerDay + 1}

\* requests of ward 1 filed at tick 1
NormRows ==
    {RawRow(Given("SR"), Given(1), Given(Completed), Given(1), Given(1 + d)) :
        d \in NormDurations}
      \cup {RawRow(Given("SR"), Given(1), Given(Open), Given(1), Absent)}

SeqsUpTo(S, n) == UNION {[1..k -> S] : k \in 0..n}

NormInit ==
    /\ upstream \in {[up |-> TRUE, rows |-> rows] :
                        rows \in SeqsUpTo(NormRows, MaxRecords)}
    /\ Idle

NormSpec == NormInit /\ [][PipelineNext]_vars

\* the same requests and one of ward 2 that took the whole year
RangeRows ==
    NormRows \cup {RawRow(Given("SR"), Given(2), Given(Completed), Given(1),
                          Given(1 + MaxResponseDays * TicksPerDay))}

RangeInit ==
    /\ upstream \in {[up |-> TRUE, rows |-> rows] :
                        rows \in SeqsUpTo(RangeRows, MaxRecords)}
    /\ Idle

RangeSpec == RangeInit /\ [][PipelineNext]_vars

-----------------------------------------------------------------------------
(* Two reporting passes, each over its own time window of the portal.  In  *)
(* this specification every variable holds one value per pass.             *)

Passes == {1, 2}

\* records of one time window
MaxWindow == 2

WindowRows == {CompletedRow(1, 1), CompletedRow(2, 2), OpenRow(1)}

PassUnset == [p \in Passes |-> NONE]

PassInit ==
    /\ upstream \in [Passes -> {[up |-> TRUE, rows |-> rows] :
                                   rows \in SeqsUpTo(WindowRows, MaxWindow)}]
    /\ df = [p \in Passes |-> FetchRodentComplaints(upstream[p])]
    /\ summary = PassUnset
    /\ metrics = PassUnset
    /\ graded = PassUnset
    /\ probe = NONE
    /\ NoSession

PassGetCitySummary(p) ==
    /\ df[p].kind = "frame"
    /\ summary[p] = NONE
    /\ summary' = [summary EXCEPT ![p] = GetCitySummaryOf(df[p])]
    /\ UNCHANGED <<upstream, df, metrics, graded, probe, session>>

PassCalculateWardMetrics(p) ==
    /\ df[p].kind = "frame"
    /\ metrics[p] = NONE
    /\ metrics' = [metrics EXCEPT ![p] = CalculateWardMetricsOf(df[p])]
    /\ UNCHANGED <<upstream, df, summary, graded, probe, session>>

PassCalculateWardGradesInPlace(p, threshold) ==
    /\ metrics[p].kind = "table"
    /\ graded[p] = NONE
    /\ graded' = [graded EXCEPT
                     ![p] = CalculateWardGradesOf(metrics[p], threshold)]
    /\ metrics' = [metrics EXCEPT
                      ![p] = Table(GradedRows(metrics[p].rows, threshold))]
    /\ UNCHANGED <<upstream, df, summary, probe, session>>

\* the columns are added to a copy of the pass's metrics table
PassCalculateWardGrades(p, threshold) ==
    /\ metrics[p].kind = "table"
    /\ graded[p] = NONE
    /\ graded' = [graded EXCEPT
                     ![p] = CalculateWardGradesOf(metrics[p], threshold)]
    /\ UNCHANGED <<upstream, df, summary, metrics, probe, session>>

PassNext ==
    \E p \in Passes :
        \/ PassGetCitySummary(p)
        \/ PassCalculateWardMetrics(p)
        \/ \E threshold \in Thresholds : PassCalculateWardGrades(p, threshold)

PassSpec == PassInit /\ [][PassNext]_vars

-----------------------------------------------------------------------------
(* data/fetch.py: fetch_aldermen, and the pages that call the functions *)

Official(w, name) == [ward |-> w, alderman |-> name]

OfficialFields == {"ward", "alderman"}

RECURSIVE InsertByWard(_, _)
InsertByWard(x, s) ==
    IF s = <<>> THEN <<x>>
    ELSE IF NotNull(x.ward) /\ (IsNull(Head(s).ward)
                                   \/ Val(x.ward) < Val(Head(s).ward))
         THEN <<x>> \o s
    ELSE <<Head(s)>> \o InsertByWard(x, Tail(s))

\* sort_values('ward'): nulls last, rows of one ward keep their order
RECURSIVE SortByWard(_)
SortByWard(s) ==
    IF s = <<>> THEN <<>>
    ELSE InsertByWard(s[Len(s)], SortByWard(SubSeq(s, 1, Len(s) - 1)))

\* fetch_aldermen: the whole body is inside the try block, so a portal that
\* is down and a result without a ward column both give pd.DataFrame()
FetchAldermen(portal) ==
    IF ~portal.up THEN EmptyFrame
    ELSE LET results == portal.officials
             cols == {f \in OfficialFields :
                         \E i \in 1..Len(results) : results[i][f].t # "abs"}
         IN IF results = <<>> THEN EmptyFrame
            ELSE IF "ward" \notin cols THEN EmptyFrame
            ELSE Frame(cols,
                       SortByWard([i \in 1..Len(results) |->
                                      [ward |-> Coerce(results[i].ward),
                                       alderman |-> Coerce(results[i].alderman)]]))

\* df.empty
IsEmpty(frame) == frame.cols = {} \/ frame.rows = <<>>

\* ward_metrics.merge(aldermen[['ward', 'alderman']], on='ward', how='left'):
\* the rows of the left table in their order, each once per official of its
\* ward, or once with a null alderman when the ward has none
RECURSIVE MergeLeft(_, _)
MergeLeft(left, right) ==
    IF left = <<>> THEN <<>>
    ELSE LET l == Head(left)
             m == SelectSeq(right, LAMBDA r : r.ward = Some(l.metrics.ward))
             joined == IF m = <<>> THEN <<[row |-> l, alderman |-> NaN]>>
                       ELSE [k \in 1..Len(m) |->
                                [row |-> l, alderman |-> m[k].alderman]]
         IN joined \o MergeLeft(Tail(left), right)

MergeAldermen(table, officials) ==
    IF ~(OfficialFields \subseteq officials.cols) THEN Raised("KeyError")
    ELSE Table(MergeLeft(table.rows, officials.rows))

ExportColumns ==
    <<"Rank", "Ward", "Alderman", "Median (days)", "Mean (days)",
      "P90 (days)", "Complaints", "Completion %", "Grade">>

\* display_table and to_csv(index=False) of pages/2_Ward_Rankings.py
DisplayTable(merged) ==
    [header |-> ExportColumns,
     rows |-> [i \in 1..Len(merged) |->
                  LET m == merged[i].row.metrics
                  IN [Rank |-> m.rank,
                      Ward |-> m.ward,
                      Alderman |-> merged[i].alderman,
                      Median |-> RoundDays(m.median_response),
                      Mean |-> RoundDays(m.mean_response),
                      P90 |-> RoundDays(m.p90_response),
                      Complaints |-> m.total_complaints,
                      Completion |-> m.completion_rate,
                      Grade |-> merged[i].row.grade]]]

PageNames == {"Home", "HeatMap", "Rankings", "Report"}

\* what a page does once the data is there, in the order of its script
Program(name) ==
    CASE name = "Home" -> <<"summary", "metrics", "grades">>
      [] name = "HeatMap" -> <<"coords", "summary">>
      [] name = "Rankings" -> <<"metrics", "grades", "merge", "export">>
      [] name = "Report" -> <<"metrics", "grades", "summary", "merge">>

UsesAldermen(name) == name \in {"Home", "Rankings", "Report"}

MaxOfficials == 2

OfficialRows ==
    {Official(Given(1), Given("La Spata")), Official(Given(2), Given("Hopkins")),
     \* a second office of ward 1
     Official(Given(1), Given("La Spata (annex)")),
     \* an office without a ward
     Official(Absent, Given("Vacant"))}

PageInit ==
    /\ upstream \in {[up |-> up, rows |-> rows, officials |-> officials] :
                        up \in BOOLEAN,
                        rows \in SeqsUpTo(WindowRows \cup {CompletedRow(1, 2)},
                                          MaxWindow),
                        officials \in SeqsUpTo(OfficialRows, MaxOfficials)}
    /\ df = NONE
    /\ summary = NONE
    /\ metrics = NONE
    /\ graded = NONE
    /\ probe = NONE
    /\ NoSession

OpenPage(name) ==
    /\ page = NONE
    /\ page' = [kind |-> "page", name |-> name, pc |-> "load", at |-> 0,
                said |-> "", calls |-> <<>>, merged |-> NONE, csv |-> NONE]
    /\ UNCHANGED <<upstream, df, summary, metrics, graded, probe,
                   aldermen, cache, now>>

\* the page after its current step: the next step, or the end of the script;
\* an exception ends the run
Advance(result) ==
    IF result.kind = "raised" THEN [page EXCEPT !.pc = "crashed"]
    ELSE IF page.at = Len(Program(page.name)) THEN [page EXCEPT !.pc = "done"]
    ELSE [page EXCEPT !.pc = "run", !.at = @ + 1]

At(step) == page.kind = "page" /\ page.pc = "run"
               /\ Program(page.name)[page.at] = step

Called(p, fn) ==
    [p EXCEPT !.calls = Append(@, [fn |-> fn, records |-> Len(df.rows)])]

\* with st.spinner(...): df = fetch_rodent_complaints(...),
\* aldermen = fetch_aldermen()
LoadData ==
    /\ page.kind = "page"
    /\ page.pc = "load"
    /\ df' = FetchRodentComplaints(upstream)
    /\ IF df'.kind = "raised"
       THEN /\ page' = [page EXCEPT !.pc = "crashed"]
            /\ UNCHANGED aldermen
       ELSE /\ page' = [page EXCEPT !.pc = "check"]
            /\ aldermen' = IF UsesAldermen(page.name)
                           THEN FetchAldermen(upstream) ELSE aldermen
    /\ UNCHANGED <<upstream, summary, metrics, graded, probe, cache, now>>

EmptyCheckSkipped ==
    /\ page.kind = "page"
    /\ page.pc = "check"
    /\ page' = [page EXCEPT !.pc = "run", !.at = 1]
    /\ UNCHANGED <<upstream, df, summary, metrics, graded, probe,
                   aldermen, cache, now>>

\* if df.empty: st.error(...); st.stop()
EmptyCheck ==
    /\ page.kind = "page"
    /\ page.pc = "check"
    /\ page' = IF IsEmpty(df)
               THEN [page EXCEPT !.pc = "stopped", !.said = "no data"]
               ELSE [page EXCEPT !.pc = "run", !.at = 1]
    /\ UNCHANGED <<upstream, df, summary, metrics, graded, probe,
                   aldermen, cache, now>>

\* pages/1_Heat_Map.py: the records with coordinates; whether there are any
\* is not a matter of the modelled fields
CoordsCheck ==
    /\ At("coords")
    /\ \E located \in BOOLEAN :
           page' = IF located THEN Advance(NONE)
                   ELSE [page EXCEPT !.pc = "stopped", !.said = "no location"]
    /\ UNCHANGED <<upstream, df, summary, metrics, graded, probe,
                   aldermen, cache, now>>

PageGetCitySummary ==
    /\ At("summary")
    /\ summary' = GetCitySummaryOf(df)
    /\ page' = Called(Advance(summary'), "get_city_summary")
    /\ UNCHANGED <<upstream, df, metrics, graded, probe, aldermen, cache, now>>

PageCalculateWardMetrics ==
    /\ At("metrics")
    /\ metrics' = CalculateWardMetricsOf(df)
    /\ page' = Called(Advance(metrics'), "calculate_ward_metrics")
    /\ UNCHANGED <<upstream, df, summary, graded, probe, aldermen, cache, now>>

PageCalculateWardGrades ==
    /\ At("grades")
    /\ graded' = CalculateWardGradesOf(metrics, MinComplaintsThreshold)
    /\ page' = Called(Advance(graded'), "calculate_ward_grades")
    /\ UNCHANGED <<upstream, df, summary, metrics, probe, aldermen, cache, now>>

PageMerge ==
    /\ At("merge")
    /\ LET merged == MergeAldermen(graded, aldermen)
       IN page' = [Advance(merged) EXCEPT !.merged = merged]
    /\ UNCHANGED <<upstream, df, summary, metrics, graded, probe,
                   aldermen, cache, now>>

PageExport ==
    /\ At("export")
    /\ page' = [Advance(NONE) EXCEPT !.csv = DisplayTable(page.merged.rows)]
    /\ UNCHANGED <<upstream, df, summary, metrics, graded, probe,
                   aldermen, cache, now>>

PageNext ==
    \/ \E name \in PageNames : OpenPage(name)
    \/ LoadData
    \/ EmptyCheck
    \/ CoordsCheck
    \/ PageGetCitySummary
    \/ PageCalculateWardMetrics
    \/ PageCalculateWardGrades
    \/ PageMerge
    \/ PageExport

PageSpec == PageInit /\ [][PageNext]_vars

-----------------------------------------------------------------------------
(* data/fetch.py: the two fetches behind @st.cache_data(ttl=...).  The    *)
(* clock is in seconds.                                                     *)

\* @st.cache_data(ttl=3600) on fetch_rodent_complaints
ComplaintsTTL == 3600

\* @st.cache_data(ttl=86400) on fetch_aldermen
AldermenTTL == 86400

\* the values of days_back the callers pass
DaysBack == {30, 365}

ComplaintsKey(days_back) == <<"fetch_rodent_complaints", days_back>>
AldermenKey == <<"fetch_aldermen">>

CacheKeys == {ComplaintsKey(d) : d \in DaysBack} \cup {AldermenKey}

TTL(key) == IF key = AldermenKey THEN AldermenTTL ELSE ComplaintsTTL

\* the instants the clock is looked at: the first half hours, and the
\* moment the officials expire
MaxHalfHours == 2
ClockTimes == {h * 1800 : h \in 0..MaxHalfHours} \cup {AldermenTTL}

\* what the portal answers, whatever the window: a completed request, or
\* only an open one (no closed_date key)
WindowPayloads == {<<CompletedRow(1, 1)>>, <<OpenRow(1)>>}

CacheInit ==
    /\ upstream \in {[up |-> TRUE, rows |-> rows,
                        officials |-> <<Official(Given(1), Given("La Spata"))>>,
                        contacted |-> [k \in CacheKeys |-> NaN]] :
                           rows \in WindowPayloads}
    /\ df = NONE
    /\ summary = NONE
    /\ metrics = NONE
    /\ graded = NONE
    /\ probe = NONE
    /\ aldermen = NONE
    /\ page = NONE
    /\ cache = [k \in CacheKeys |-> NONE]
    /\ now = 0

Tick ==
    /\ \E t \in ClockTimes : t > now /\ now' = t
    /\ UNCHANGED <<upstream, df, summary, metrics, graded, probe,
                   aldermen, page, cache>>

PortalFails ==
    /\ upstream.up
    /\ upstream' = [upstream EXCEPT !.up = FALSE]
    /\ UNCHANGED <<df, summary, metrics, graded, probe, session>>

PortalRecovers ==
    /\ ~upstream.up
    /\ upstream' = [upstream EXCEPT !.up = TRUE]
    /\ UNCHANGED <<df, summary, metrics, graded, probe, session>>

\* an entry younger than the function's ttl
Fresh(key) == cache[key] # NONE /\ now - cache[key].stored < TTL(key)

\* the record of a call: what it returned, whether the cache answered, and
\* on a miss the seconds since the portal was last asked for this key
CallRecord(key, result) ==
    [kind |-> "call", key |-> key, result |-> result, at |-> now,
     hit |-> Fresh(key),
     age |-> IF Fresh(key) THEN Some(now - cache[key].stored) ELSE NaN,
     since |-> IF ~Fresh(key) /\ NotNull(upstream.contacted[key])
               THEN Some(now - Val(upstream.contacted[key])) ELSE NaN,
     up |-> upstream.up]

CachedUnlessEmpty(key, computed) ==
    IF Fresh(key) THEN [result |-> cache[key].value, cache |-> cache,
                        upstream |-> upstream]
    ELSE [result |-> computed,
          cache |-> IF computed.kind = "raised" \/ IsEmpty(computed) THEN cache
                    ELSE [cache EXCEPT
                             ![key] = [kind |-> "entry", value |-> computed,
                                       stored |-> now]],
          upstream |-> [upstream EXCEPT !.contacted[key] = Some(now)]]

\* a call through the cache: a fresh entry is returned; otherwise the
\* function runs, and what it returns is stored; an exception is not stored
Cached(key, computed) ==
    IF Fresh(key) THEN [result |-> cache[key].value, cache |-> cache,
                        upstream |-> upstream]
    ELSE [result |-> computed,
          cache |-> IF computed.kind = "raised" THEN cache
                    ELSE [cache EXCEPT
                             ![key] = [kind |-> "entry", value |-> computed,
                                       stored |-> now]],
          upstream |-> [upstream EXCEPT !.contacted[key] = Some(now)]]

CallFetchRodentComplaints(days_back) ==
    LET key == ComplaintsKey(days_back)
        call == Cached(key, FetchRodentComplaints(upstream))
    IN /\ cache' = call.cache
       /\ upstream' = call.upstream
       /\ page' = CallRecord(key, call.result)
       /\ UNCHANGED <<df, summary, metrics, graded, probe, aldermen, now>>

CallFetchAldermen ==
    LET call == Cached(AldermenKey, FetchAldermen(upstream))
    IN /\ cache' = call.cache
       /\ upstream' = call.upstream
       /\ page' = CallRecord(AldermenKey, call.result)
       /\ UNCHANGED <<df, summary, metrics, graded, probe, aldermen, now>>

CacheNext ==
    \/ Tick
    \/ PortalFails
    \/ PortalRecovers
    \/ \E d \in DaysBack : CallFetchRodentComplaints(d)
    \/ CallFetchAldermen

CacheSpec == CacheInit /\ [][CacheNext]_vars

-----------------------------------------------------------------------------
(* assign_grade on its own: a score in thousandths is drawn, then graded *)

ProbeScores ==
    {1000 * k : k \in 0..100}
      \cup {1000 * t + e : t \in {GradeA, GradeB, GradeC, GradeD},
                           e \in (-GradeEps)..GradeEps}

GradeInit ==
    /\ upstream = [up |-> TRUE, rows |-> <<>>]
    /\ df = NONE
    /\ summary = NONE
    /\ metrics = NONE
    /\ graded = NONE
    /\ probe \in {[kind |-> "score", score |-> <<k, 1000>>, grade |-> ""] :
                      k \in ProbeScores}
                 \cup {[kind |-> "score", score |-> NaN, grade |-> ""]}
    /\ NoSession

AssignGradeCall ==
    /\ probe.kind = "score"
    /\ probe' = [probe EXCEPT !.kind = "graded", !.grade = AssignGrade(probe.score)]
    /\ UNCHANGED <<upstream, df, summary, metrics, graded, session>>

GradeNext == AssignGradeCall

GradeSpec == GradeInit /\ [][GradeNext]_vars

-----------------------------------------------------------------------------
(* The claims.  The completed subset is restated here from the            *)
(* specification's words, apart from the operators that model the code.   *)

\* status contains the keyword in any case, the duration is present and > 0
InCompletedSubset(row) ==
    /\ NotNull(row.status)
    /\ \E i \in 0..(Len(Val(row.status)) - Len(Completed)) :
           \A j \in 1..Len(Completed) :
               Lower(Val(row.status)[i + j]) = Lower(Completed[j])
    /\ NotNull(row.response_days)
    /\ Val(row.response_days) > 0

\* positions of the frame's rows of ward w / of its completed rows
RecordsOf(w) == {i \in 1..Len(df.rows) : df.rows[i].ward = Some(w)}
CompletedOf(w) == {i \in RecordsOf(w) : InCompletedSubset(df.rows[i])}

WardsOfFrame == NonNull(df.rows, "ward")

RECURSIVE SumOver(_, _)
SumOver(S, f) ==
    IF S = {} THEN 0
    ELSE LET i == CHOOSE x \in S : TRUE IN f[i] + SumOver(S \ {i}, f)

MetricsDone == df.kind = "frame" /\ metrics.kind = "table"
GradedDone == MetricsDone /\ graded.kind = "graded"
GradedRowsIdx == 1..Len(graded.rows)

FactorNames == {"speed_score", "volume_score", "p90_score",
                "consistency_score", "completion_score"}

\* a score is the number k
ScoreIs(score, k) == NotNull(score) /\ score[1] = k * score[2]
ScoreIn(score, lo, hi) ==
    NotNull(score) /\ lo * score[2] <= score[1] /\ score[1] <= hi * score[2]

\* C1: every row's total_complaints is the number of all records of its
\* ward, completed or not
C1_TotalCountsAllRecords ==
    MetricsDone =>
        \A k \in 1..Len(metrics.rows) :
            metrics.rows[k].total_complaints
                = Cardinality(RecordsOf(metrics.rows[k].ward))

\* C2: in a cohort of two or more wards every factor gives 100 to some ward
\* (the best) and 20 to some ward (the worst); a cohort of one gets 100 in
\* every factor
C2_BestIs100WorstIs20 ==
    GradedDone =>
        \A f \in FactorNames :
            /\ Len(graded.rows) >= 2 =>
                   /\ \E i \in GradedRowsIdx : ScoreIs(graded.rows[i][f], 100)
                   /\ \E i \in GradedRowsIdx : ScoreIs(graded.rows[i][f], 20)
            /\ Len(graded.rows) = 1 => ScoreIs(graded.rows[1][f], 100)

\* C3: the five factor scores of every graded ward are numbers in [20,100]
C3_ScoresDefinedInRange ==
    GradedDone =>
        \A i \in GradedRowsIdx : \A f \in FactorNames :
            ScoreIn(graded.rows[i][f], 20, 100)

\* C4: final_score is the weighted sum 0.30 speed + 0.25 volume + 0.20 p90
\* + 0.15 consistency + 0.10 completion, the weights sum to 1, and
\* final_score is in [20,100].  (The five scores of a row have one
\* denominator, speed_score[2].)
C4_FinalScoreWeightedSum ==
    /\ SpeedWeight + VolumeWeight + P90Weight + ConsistencyWeight
         + CompletionWeight = 100
    /\ GradedDone =>
        \A i \in GradedRowsIdx :
            LET r == graded.rows[i] IN
            /\ \A f \in FactorNames : NotNull(r[f])
            /\ NotNull(r.final_score)
            /\ 100 * r.final_score[1] * r.speed_score[2]
                 = r.final_score[2]
                     * (30 * r.speed_score[1] + 25 * r.volume_score[1]
                          + 20 * r.p90_score[1] + 15 * r.consistency_score[1]
                          + 10 * r.completion_score[1])
            /\ ScoreIn(r.final_score, 20, 100)


\* C5: assign_grade gives A from 80, B from 65, C from 50, D from 35 (each
\* bound inclusive) and F below; 80.0 is A, 79.999 is B, 65.0 is B, 50.0 is
\* C, 35.0 is D, 34.999 is F
C5_GradeThresholds ==
    (probe.kind = "graded" /\ NotNull(probe.score)) =>
        LET k == probe.score[1]
            g == probe.grade
        IN /\ probe.score[2] = 1000
           /\ (k >= 80000) <=> (g = "A")
           /\ (65000 <= k /\ k < 80000) <=> (g = "B")
           /\ (50000 <= k /\ k < 65000) <=> (g = "C")
           /\ (35000 <= k /\ k < 50000) <=> (g = "D")
           /\ (k < 35000) <=> (g = "F")
           /\ k = 80000 => g = "A"
           /\ k = 79999 => g = "B"
           /\ k = 65000 => g = "B"
           /\ k = 50000 => g = "C"
           /\ k = 35000 => g = "D"
           /\ k = 34999 => g = "F"

C5_Witness ==
    /\ probe.kind = "graded"
    /\ probe.score = <<79999, 1000>>
    /\ probe.grade = "B"

\* C6: on an empty record set calculate_ward_metrics returns an empty table
\* and get_city_summary returns zero counts and null median and mean;
\* neither raises
C6_EmptyInputNoRaise ==
    (df.kind = "frame" /\ df.rows = <<>>) =>
        /\ metrics # NONE => metrics = Table(<<>>)
        /\ summary # NONE =>
               /\ summary.kind = "summary"
               /\ summary.total_complaints = 0
               /\ summary.completed_complaints = 0
               /\ IsNull(summary.median_response_days)
               /\ IsNull(summary.mean_response_days)

\* C7: fetch_rodent_complaints never raises: an unreachable upstream or a
\* malformed payload gives an empty record set
C7_FetchNeverRaises == df.kind # "raised"

\* C8: a ward has a row in the metrics table iff it has at least one record
\* in the completed subset
C8_RowIffCompleted ==
    MetricsDone =>
        /\ \A w \in WardsOfFrame :
               (\E k \in 1..Len(metrics.rows) : metrics.rows[k].ward = w)
                   <=> CompletedOf(w) # {}
        /\ \A k \in 1..Len(metrics.rows) :
               /\ metrics.rows[k].ward \in WardsOfFrame
               /\ \A j \in 1..Len(metrics.rows) :
                      metrics.rows[j].ward = metrics.rows[k].ward => j = k

\* ward 1 has records, none of them completed, and only ward 2 has a row
C8_Witness ==
    /\ MetricsDone
    /\ RecordsOf(1) # {}
    /\ CompletedOf(1) = {}
    /\ Len(metrics.rows) = 1
    /\ metrics.rows[1].ward = 2

\* C9: completion_rate is completed / all records of the ward * 100 rounded
\* to one decimal (the tenth nearest to the quotient), and is in [0,100]
C9_CompletionRate ==
    MetricsDone =>
        \A k \in 1..Len(metrics.rows) :
            LET r == metrics.rows[k]
                all == Cardinality(RecordsOf(r.ward))
                done == Cardinality(CompletedOf(r.ward))
                tenths == r.completion_rate[1]
            IN /\ r.completion_rate[2] = 10
               /\ all > 0
               /\ 2 * Abs(tenths * all - 1000 * done) <= all
               /\ 0 <= tenths /\ tenths <= 1000

\* two of a ward's three records are completed: 66.7
C9_Witness ==
    /\ MetricsDone
    /\ \E k \in 1..Len(metrics.rows) :
           /\ Cardinality(RecordsOf(metrics.rows[k].ward)) = 3
           /\ Cardinality(CompletedOf(metrics.rows[k].ward)) = 2
           /\ metrics.rows[k].completion_rate = <<667, 10>>

\* C10: calculate_ward_metrics and get_city_summary both take as completed
\* exactly the records whose status contains the keyword in any case and
\* whose duration is present and > 0: the ward statistics and the counts
\* are those of that subset
C10_SameCompletedRule ==
    /\ MetricsDone =>
           \A k \in 1..Len(metrics.rows) :
               LET r == metrics.rows[k]
                   mine == CompletedOf(r.ward)
                   dur == [i \in 1..Len(df.rows) |->
                              IF i \in mine THEN Val(df.rows[i].response_days)
                              ELSE 0]
               IN /\ mine # {}
                  /\ r.mean_response = <<SumOver(mine, dur), Cardinality(mine)>>
                  /\ \A i \in mine : RatLe(r.min_response, <<dur[i], 1>>)
                  /\ \E i \in mine : r.min_response = <<dur[i], 1>>
    /\ (df.kind = "frame" /\ summary.kind = "summary") =>
           /\ summary.completed_complaints
                = Cardinality({i \in 1..Len(df.rows) :
                                  InCompletedSubset(df.rows[i])})
           /\ summary.completion_rate
                = Round1(100 * Cardinality({i \in 1..Len(df.rows) :
                                               InCompletedSubset(df.rows[i])}),
                         Len(df.rows))

\* a Completed record of duration 0 and a COMPLETED record of positive
\* duration: one completed record for both functions
C10_Witness ==
    /\ MetricsDone
    /\ summary.kind = "summary"
    /\ \E i \in 1..Len(df.rows) :
           /\ df.rows[i].status = Some(Completed)
           /\ df.rows[i].response_days = Some(0)
    /\ \E i \in 1..Len(df.rows) :
           /\ df.rows[i].status = Some(CompletedUpper)
           /\ InCompletedSubset(df.rows[i])
    /\ summary.completed_complaints = 1
    /\ Len(metrics.rows) = 1
    /\ metrics.rows[1].mean_response[2] = 1


MetricsIdx == 1..Len(metrics.rows)
MedianAt(k) == metrics.rows[k].median_response

\* C11: rank is the minimum rank of median_response ascending: the smallest
\* medians have rank 1, equal medians have equal ranks, and the next larger
\* median's rank is the tied rank plus the size of the tie group
C11_MinRank ==
    MetricsDone =>
        /\ \A k \in MetricsIdx :
               (\A j \in MetricsIdx : RatLe(MedianAt(k), MedianAt(j)))
                   => metrics.rows[k].rank = 1
        /\ \A j, k \in MetricsIdx :
               RatEq(MedianAt(j), MedianAt(k))
                   => metrics.rows[j].rank = metrics.rows[k].rank
        /\ \A j, k \in MetricsIdx :
               (/\ RatLt(MedianAt(j), MedianAt(k))
                /\ ~\E i \in MetricsIdx :
                       RatLt(MedianAt(j), MedianAt(i))
                           /\ RatLt(MedianAt(i), MedianAt(k)))
                   => metrics.rows[k].rank
                        = metrics.rows[j].rank
                            + Cardinality({i \in MetricsIdx :
                                              RatEq(MedianAt(i), MedianAt(j))})

\* two wards tied for rank 1, the third ward at rank 3
C11_Witness ==
    /\ MetricsDone
    /\ Len(metrics.rows) = 3
    /\ RatEq(MedianAt(1), MedianAt(2))
    /\ RatLt(MedianAt(2), MedianAt(3))
    /\ metrics.rows[1].rank = 1
    /\ metrics.rows[2].rank = 1
    /\ metrics.rows[3].rank = 3

\* C12: the metrics table is ordered by rank ascending
C12_OrderedByRank ==
    MetricsDone =>
        \A k \in 1..(Len(metrics.rows) - 1) :
            metrics.rows[k].rank <= metrics.rows[k + 1].rank

\* ward 2 is faster than ward 1 and comes first
C12_Witness ==
    /\ MetricsDone
    /\ Len(metrics.rows) >= 2
    /\ metrics.rows[1].ward = 2
    /\ metrics.rows[2].ward = 1
    /\ metrics.rows[1].rank < metrics.rows[2].rank


\* the portal's rows that carry both timestamps, and closed - created
Timed == {i \in 1..Len(upstream.rows) :
             /\ upstream.rows[i].created_date.t = "val"
             /\ upstream.rows[i].closed_date.t = "val"}
Elapsed(i) == upstream.rows[i].closed_date.v - upstream.rows[i].created_date.v
YearTicks == MaxResponseDays * TicksPerDay

\* the portal's rows marked Completed whose duration is valid and positive
ValidCompleted ==
    {i \in Timed : /\ upstream.rows[i].status = Given(Completed)
                   /\ 0 < Elapsed(i)
                   /\ Elapsed(i) <= YearTicks}

\* C13: a duration below 0 or above 365 days becomes null, one of exactly 0
\* or exactly 365 days is kept; the record itself stays: it counts in its
\* ward's and the city's number of records, and with a null duration it is
\* not in the completed subset although its status says Completed
C13_InvalidDurationNulled ==
    df.kind = "frame" =>
        /\ Len(df.rows) = Len(upstream.rows)
        /\ \A i \in Timed :
               /\ (Elapsed(i) < 0 \/ Elapsed(i) > YearTicks)
                      => IsNull(df.rows[i].response_days)
               /\ (0 <= Elapsed(i) /\ Elapsed(i) <= YearTicks)
                      => df.rows[i].response_days = Some(Elapsed(i))
        /\ summary.kind = "summary" =>
               /\ summary.total_complaints = Len(upstream.rows)
               /\ summary.completed_complaints = Cardinality(ValidCompleted)
        /\ metrics.kind = "table" =>
               \A k \in 1..Len(metrics.rows) :
                   LET w == metrics.rows[k].ward IN
                   /\ metrics.rows[k].all_complaints
                        = Cardinality({i \in 1..Len(upstream.rows) :
                                          upstream.rows[i].ward = Given(w)})
                   /\ metrics.rows[k].mean_response[2]
                        = Cardinality({i \in ValidCompleted :
                                          upstream.rows[i].ward = Given(w)})

\* a Completed request closed before it was created, one closed after 365
\* days and a tick, and one closed after exactly 365 days: three records,
\* one of them completed
C13_Witness ==
    /\ MetricsDone
    /\ summary.kind = "summary"
    /\ \E i \in Timed : Elapsed(i) < 0 /\ IsNull(df.rows[i].response_days)
    /\ \E i \in Timed : Elapsed(i) = YearTicks + 1
                           /\ IsNull(df.rows[i].response_days)
    /\ \E i \in Timed : Elapsed(i) = YearTicks
                           /\ df.rows[i].response_days = Some(YearTicks)
    /\ summary.total_complaints = 3
    /\ summary.completed_complaints = 1
    /\ Len(metrics.rows) = 1
    /\ metrics.rows[1].all_complaints = 3


\* C14: with completed response days 1..5 for X (ward 1), 10, 20, 30 for Y
\* (ward 2) and 100 for Z (ward 3), X, Y, Z are ranked 1, 2, 3 and their
\* speed scores are 100, 60 and 20
C14_ThreeWardScenario ==
    (upstream.rows = ScenarioPayload /\ MetricsDone) =>
        /\ Len(metrics.rows) = 3
        /\ \A w \in 1..3 :
               metrics.rows[w].ward = w /\ metrics.rows[w].rank = w
        /\ GradedDone =>
               /\ \A w \in 1..3 : graded.rows[w].metrics.ward = w
               /\ ScoreIs(graded.rows[1].speed_score, 100)
               /\ ScoreIs(graded.rows[2].speed_score, 60)
               /\ ScoreIs(graded.rows[3].speed_score, 20)

C14_Witness ==
    /\ upstream.rows = ScenarioPayload
    /\ GradedDone
    /\ Len(graded.rows) = 3
    /\ RatEq(graded.rows[1].metrics.median_response, <<3 * TicksPerDay, 1>>)
    /\ RatEq(graded.rows[3].metrics.median_response, <<100 * TicksPerDay, 1>>)
    /\ ScoreIs(graded.rows[3].speed_score, 20)


ScoreColumns == FactorNames \cup {"final_score", "grade"}

\* C15: low_sample_size is true exactly when total_complaints is below the
\* threshold, and grading the same table with any other threshold gives
\* every ward the same factor scores, final_score and grade
C15_ThresholdOnlyFlags ==
    GradedDone =>
        /\ \A i \in GradedRowsIdx :
               graded.rows[i].low_sample_size
                   <=> (metrics.rows[i].total_complaints < graded.threshold)
        /\ \A t \in Thresholds :
               LET other == CalculateWardGradesOf(metrics, t).rows IN
               /\ Len(other) = Len(graded.rows)
               /\ \A i \in GradedRowsIdx : \A c \in ScoreColumns :
                      other[i][c] = graded.rows[i][c]

\* graded with threshold 2: a ward with two complaints is not flagged, a
\* ward with one is
C15_Witness ==
    /\ GradedDone
    /\ graded.threshold = 2
    /\ \E i \in GradedRowsIdx :
           /\ metrics.rows[i].total_complaints = 2
           /\ ~graded.rows[i].low_sample_size
    /\ \E i \in GradedRowsIdx :
           /\ metrics.rows[i].total_complaints = 1
           /\ graded.rows[i].low_sample_size


\* the durations of the frame's completed records, all wards together
AllCompletedDurations == Durations(SelectSeq(df.rows, InCompletedSubset))

\* C16: vs_city_median is (ward median - city median) / city median * 100
\* rounded to one decimal (the tenth nearest to the quotient), the city
\* median being the one median of all completed durations
C16_VsCityMedian ==
    MetricsDone =>
        \A k \in MetricsIdx :
            LET m == MedianAt(k)
                c == Median(AllCompletedDurations)
                tenths == metrics.rows[k].vs_city_median[1]
                num == (m[1] * c[2] - c[1] * m[2]) * 1000
                den == m[2] * c[1]
            IN /\ metrics.rows[k].vs_city_median[2] = 10
               /\ den > 0
               /\ 2 * Abs(tenths * den - num) <= den

\* ward 1 answered twice in one tick, ward 2 once in two ticks: the city
\* median is one tick (the median of the ward medians would be 1.5)
C16_Witness ==
    /\ MetricsDone
    /\ AllCompletedDurations = <<1, 1, 2>>
    /\ Len(metrics.rows) = 2
    /\ metrics.rows[1].ward = 1
    /\ metrics.rows[1].vs_city_median = <<0, 10>>
    /\ metrics.rows[2].ward = 2
    /\ metrics.rows[2].vs_city_median = <<1000, 10>>


\* the orders of n things
Perms(n) == {p \in [1..n -> 1..n] : \A a, b \in 1..n : p[a] = p[b] => a = b}

\* C17: grading the metrics table with its rows in any other order gives
\* every ward the same five factor scores, final_score and grade
C17_RowOrderIndependent ==
    GradedDone =>
        \A p \in Perms(Len(metrics.rows)) :
            LET shuffled == Table([i \in MetricsIdx |-> metrics.rows[p[i]]])
                other == CalculateWardGradesOf(shuffled, graded.threshold).rows
            IN \A i \in MetricsIdx :
                   /\ other[i].metrics.ward = graded.rows[p[i]].metrics.ward
                   /\ \A c \in ScoreColumns :
                          other[i][c] = graded.rows[p[i]][c]

\* three graded wards, two of them tied on the median
C17_Witness ==
    /\ GradedDone
    /\ Len(graded.rows) = 3
    /\ RatEq(MedianAt(1), MedianAt(2))
    /\ graded.rows[1].speed_score = graded.rows[2].speed_score
    /\ ~RatEq(MedianAt(2), MedianAt(3))
    /\ \A i \in GradedRowsIdx : NotNull(graded.rows[i].final_score)


OrderStats == {"median_response", "mean_response", "p90_response"}

\* C19: with the records in any other order, every ward's median, mean and
\* 90th percentile and the city's median and mean are the same
C19_RecordOrderIndependent ==
    df.kind = "frame" =>
        \A p \in Perms(Len(df.rows)) :
            LET shuffled == Frame(df.cols,
                                  [i \in 1..Len(df.rows) |-> df.rows[p[i]]])
            IN /\ metrics.kind = "table" =>
                      LET other == CalculateWardMetricsOf(shuffled).rows IN
                      /\ Len(other) = Len(metrics.rows)
                      /\ \A k \in MetricsIdx : \E j \in 1..Len(other) :
                             /\ other[j].ward = metrics.rows[k].ward
                             /\ \A c \in OrderStats :
                                    other[j][c] = metrics.rows[k][c]
               /\ summary.kind = "summary" =>
                      LET other == GetCitySummaryOf(shuffled) IN
                      /\ other.median_response_days
                           = summary.median_response_days
                      /\ other.mean_response_days = summary.mean_response_days

\* three completed records of one ward filed as 2, 1, 1 ticks: the median
\* is one tick, not the middle record's two
C19_Witness ==
    /\ MetricsDone
    /\ summary.kind = "summary"
    /\ Len(df.rows) = 3
    /\ AllCompletedDurations = <<1, 2, 1>>
    /\ Len(metrics.rows) = 1
    /\ metrics.rows[1].median_response = <<1, 1>>
    /\ metrics.rows[1].p90_response = <<18, 10>>
    /\ summary.median_response_days = RoundDays(<<1, 1>>)


SummaryDone == df.kind = "frame" /\ summary.kind = "summary" /\ Len(df.rows) > 0

CreatedOfFrame ==
    {Val(df.rows[i].created_date) :
        i \in {j \in 1..Len(df.rows) : NotNull(df.rows[j].created_date)}}

\* C20: the city summary of a non-empty record set counts all records, counts
\* the completed subset, gives their ratio as a percentage to the nearest
\* tenth within [0, 100], counts the distinct non-null wards of all records,
\* and gives the earliest and latest created timestamp
C20_CitySummaryFields ==
    SummaryDone =>
        LET all == Len(df.rows)
            done == Cardinality({i \in 1..all : InCompletedSubset(df.rows[i])})
            tenths == summary.completion_rate[1]
        IN /\ summary.total_complaints = all
           /\ summary.completed_complaints = done
           /\ summary.completion_rate[2] = 10
           /\ tenths \in 0..1000
           /\ 2 * Abs(tenths * all - 1000 * done) <= all
           /\ summary.wards_with_data = Cardinality(WardsOfFrame)
           /\ \A w \in WardsOfFrame : \E i \in 1..all : df.rows[i].ward = Some(w)
           /\ CreatedOfFrame # {} =>
                  /\ NotNull(summary.date_range.start)
                  /\ NotNull(summary.date_range.end)
                  /\ Val(summary.date_range.start) \in CreatedOfFrame
                  /\ Val(summary.date_range.end) \in CreatedOfFrame
                  /\ \A t \in CreatedOfFrame :
                         /\ Val(summary.date_range.start) <= t
                         /\ t <= Val(summary.date_range.end)

\* two wards and a record without a ward, one of the three records outside
\* the completed subset, the records created at different times
C20_Witness ==
    /\ SummaryDone
    /\ Len(df.rows) = 3
    /\ \E i \in 1..3 : IsNull(df.rows[i].ward)
    /\ summary.wards_with_data = 2
    /\ summary.completed_complaints = 2
    /\ summary.completion_rate = <<667, 10>>
    /\ Val(summary.date_range.start) < Val(summary.date_range.end)

\* C21: with two passes interleaved in any way, a pass's input frame stays
\* what was fetched for it, its metrics table stays what calculate_ward_metrics
\* made of that frame, and each result is the one the function gives alone
C21_InputsUnchanged ==
    \A p \in Passes :
        /\ df[p] = FetchRodentComplaints(upstream[p])
        /\ summary[p] # NONE => summary[p] = GetCitySummaryOf(df[p])
        /\ metrics[p] # NONE => metrics[p] = CalculateWardMetricsOf(df[p])
        /\ graded[p] # NONE =>
               \E threshold \in Thresholds :
                   graded[p] =
                       CalculateWardGradesOf(CalculateWardMetricsOf(df[p]),
                                             threshold)

\* both passes have run all three functions over different windows
C21_Witness ==
    /\ \A p \in Passes : df[p].kind = "frame" /\ Len(df[p].rows) = MaxWindow
    /\ df[1].rows # df[2].rows
    /\ \A p \in Passes :
           /\ summary[p].kind = "summary"
           /\ metrics[p].kind = "table"
           /\ graded[p].kind = "graded"
           /\ Len(graded[p].rows) > 0

\* the statistic a factor is scored on, and whether lower is better
FactorStat(row, c) ==
    CASE c = "speed_score" -> row.median_response
      [] c = "volume_score" -> <<row.total_complaints, 1>>
      [] c = "p90_score" -> row.p90_response
      [] c = "consistency_score" -> row.std_response
      [] c = "completion_score" -> row.completion_rate

LowerIsBetter(c) == c \in {"speed_score", "p90_score", "consistency_score"}

StrictlyBetter(c, a, b) == IF LowerIsBetter(c) THEN RatLt(a, b) ELSE RatLt(b, a)

ExportDone == page.kind = "page" /\ page.csv # NONE

\* C22: the export has the nine columns and exactly one row per graded
\* district, in ascending order of Rank
C22_ExportOneRowPerDistrict ==
    ExportDone =>
        LET out == page.csv.rows IN
        /\ page.csv.header = ExportColumns
        /\ Len(out) = Len(graded.rows)
        /\ \A i \in GradedRowsIdx :
               Cardinality({k \in 1..Len(out) :
                               out[k].Ward = graded.rows[i].metrics.ward}) = 1
        /\ \A k \in 1..(Len(out) - 1) : out[k].Rank <= out[k + 1].Rank

\* C26: a page calls none of the three functions with an empty record set;
\* on an empty record set it says 'no data' and stops before any call
C26_EmptyCheckFirst ==
    page.kind = "page" =>
        /\ \A k \in 1..Len(page.calls) : page.calls[k].records > 0
        /\ (df.kind = "frame" /\ IsEmpty(df) /\ page.pc \notin {"load", "check"})
               => /\ page.pc = "stopped"
                  /\ page.said = "no data"
                  /\ page.calls = <<>>
                  /\ summary = NONE /\ metrics = NONE /\ graded = NONE

\* the portal answered with no record and the page stopped
C26_Witness ==
    /\ page.kind = "page"
    /\ upstream.up
    /\ df.kind = "frame" /\ IsEmpty(df)
    /\ page.pc = "stopped"
    /\ page.said = "no data"

LastCall == page.kind = "call"

\* C24: a call answered from the cache gets an entry younger than the
\* function's ttl (3600 s, 86400 s); a call that finds no such entry asks
\* the portal; and the portal is asked for one key at most once per ttl
C24_CachedForTTL ==
    LastCall =>
        LET key == page.key
            ttl == IF key = AldermenKey THEN 86400 ELSE 3600
        IN /\ page.hit => Val(page.age) < ttl
           /\ ~page.hit => /\ upstream.contacted[key] = Some(page.at)
                           /\ NotNull(page.since) => Val(page.since) >= ttl

ComplaintsCall == LastCall /\ page.key \in {ComplaintsKey(d) : d \in DaysBack}

\* C25: the empty result of a fetch that found the portal down is stored,
\* and a later call with the same days_back within 3600 seconds gets it
\* from the cache and does not ask the portal, recovered or not
C25_FailureIsCached ==
    ComplaintsCall =>
        LET entry == cache[page.key] IN
        /\ (~page.hit /\ ~page.up)
               => /\ page.result = EmptyFrame
                  /\ entry = [kind |-> "entry", value |-> EmptyFrame,
                              stored |-> page.at]
        /\ (/\ entry.kind = "entry"
            /\ entry.value = EmptyFrame
            /\ entry.stored < page.at
            /\ page.at - entry.stored < 3600)
               => /\ page.hit
                  /\ page.result = EmptyFrame
                  /\ upstream.contacted[page.key] = Some(entry.stored)

\* the portal was down, has recovered, and half an hour after the failure
\* the call still gets the empty result
C25_Witness ==
    /\ ComplaintsCall
    /\ page.hit
    /\ page.up
    /\ page.age = Some(1800)
    /\ page.result = EmptyFrame
    /\ upstream.rows = <<CompletedRow(1, 1)>>

AllStatsDefined ==
    \A i \in GradedRowsIdx : \A c \in FactorNames :
        NotNull(FactorStat(graded.rows[i].metrics, c))

\* C28: in a cohort of n >= 2 wards with all five statistics defined, the
\* scores of each factor sum to 60 n, the final scores too (their mean is
\* 60), so some ward is at or above 60 and some ward at or below
C28_ScoresSumTo60n ==
    (GradedDone /\ Len(graded.rows) >= 2 /\ AllStatsDefined) =>
        LET n == Len(graded.rows)
            num(c) == [i \in GradedRowsIdx |-> graded.rows[i][c][1]]
            den(c) == graded.rows[1][c][2]
        IN /\ \A c \in FactorNames \cup {"final_score"} :
                  /\ \A i \in GradedRowsIdx :
                         /\ NotNull(graded.rows[i][c])
                         /\ graded.rows[i][c][2] = den(c)
                  /\ SumOver(GradedRowsIdx, num(c)) = 60 * n * den(c)
           /\ \E i \in GradedRowsIdx : ScoreGe(graded.rows[i].final_score, 60)
           /\ \E i \in GradedRowsIdx :
                  RatLe(graded.rows[i].final_score, <<60, 1>>)

\* three wards, two of them tied on the median, one above 60 and one below
C28_Witness ==
    /\ GradedDone
    /\ Len(graded.rows) = 3
    /\ AllStatsDefined
    /\ \E i, j \in GradedRowsIdx :
           /\ i # j
           /\ RatEq(MedianAt(i), MedianAt(j))
           /\ RatLt(<<60, 1>>, graded.rows[i].final_score)
           /\ RatLt(graded.rows[j].final_score, <<60, 1>>)

NullWardRecords == {i \in 1..Len(df.rows) : IsNull(df.rows[i].ward)}

CompletedDurationsOf(w) ==
    LET Mine(row) == row.ward = Some(w) /\ InCompletedSubset(row)
    IN Durations(SelectSeq(df.rows, Mine))

\* C29: a record without a ward is in no ward's row (not in its count of
\* all records, not in its completed records), but it is in the summary's
\* total and completed counts and its duration is in the city median that
\* vs_city_median compares with
C29_NullWardRecords ==
    /\ MetricsDone =>
           /\ \A k \in MetricsIdx :
                  LET r == metrics.rows[k]
                      c == Median(AllCompletedDurations)
                      m == r.median_response
                      num == (m[1] * c[2] - c[1] * m[2]) * 1000
                      den == m[2] * c[1]
                  IN /\ r.ward \in WardsOfFrame
                     /\ r.all_complaints = Cardinality(RecordsOf(r.ward))
                     /\ m = Median(CompletedDurationsOf(r.ward))
                     /\ r.mean_response = Mean(CompletedDurationsOf(r.ward))
                     /\ 2 * Abs(r.vs_city_median[1] * den - num) <= den
           /\ SumOver(MetricsIdx, [k \in MetricsIdx |->
                                      metrics.rows[k].all_complaints])
                  <= Len(df.rows) - Cardinality(NullWardRecords)
    /\ (df.kind = "frame" /\ summary.kind = "summary") =>
           /\ summary.total_complaints = Len(df.rows)
           /\ summary.completed_complaints = Len(AllCompletedDurations)

\* ward 1 answered once in one tick and two records without a ward were
\* answered in two: the city median is two ticks, ward 1 is 50% below it
C29_Witness ==
    /\ MetricsDone
    /\ summary.kind = "summary"
    /\ Len(df.rows) = 3
    /\ Cardinality(NullWardRecords) = 2
    /\ AllCompletedDurations = <<1, 2, 2>>
    /\ Len(metrics.rows) = 1
    /\ metrics.rows[1].all_complaints = 1
    /\ metrics.rows[1].vs_city_median = <<-500, 10>>
    /\ summary.total_complaints = 3
    /\ summary.completed_complaints = 3

YearInTicks == <<MaxResponseDays * TicksPerDay, 1>>

\* C30: when the metrics table has a row, the city median is positive,
\* every vs_city_median is a number not below -100, and every row has
\* 0 < min_response <= median_response <= p90_response <= max_response
\* <= 365 days
C30_PositiveAndOrdered ==
    (MetricsDone /\ Len(metrics.rows) >= 1) =>
        /\ AllCompletedDurations # <<>>
        /\ RatLt(<<0, 1>>, Median(AllCompletedDurations))
        /\ \A k \in MetricsIdx :
               LET r == metrics.rows[k] IN
               /\ NotNull(r.vs_city_median)
               /\ r.vs_city_median[2] = 10
               /\ r.vs_city_median[1] >= -1000
               /\ RatLt(<<0, 1>>, r.min_response)
               /\ RatLe(r.min_response, r.median_response)
               /\ RatLe(r.median_response, r.p90_response)
               /\ RatLe(r.p90_response, r.max_response)
               /\ RatLe(r.max_response, YearInTicks)

\* ward 1 answered in one tick, ward 2 in exactly 365 days: ward 1 is more
\* than 99% below the city median, ward 2's maximum is at the limit
C30_Witness ==
    /\ MetricsDone
    /\ Len(metrics.rows) = 2
    /\ metrics.rows[1].ward = 1
    /\ metrics.rows[1].min_response = <<1, 1>>
    /\ metrics.rows[1].vs_city_median[1] < -990
    /\ metrics.rows[2].ward = 2
    /\ metrics.rows[2].max_response = YearInTicks

=============================================================================
